---- MODULE Spec2Model ----
(***************************************************************************)
(* Conversation sidebar monitor of caprine                                 *)
(* (source/browser/conversation-list.ts): notification de-duplication      *)
(* (countUnread), the debounced tray badge (updateTrayIcon) and the        *)
(* conversation list rebuild (sendConversationList).                       *)
(*                                                                         *)
(* Text is a sequence of one-character strings; a DOM element is a record. *)
(* The host page owns the document: every handler reads the part of the    *)
(* document it queries as an input.                                        *)
(***************************************************************************)
EXTENDS Integers, Sequences, FiniteSets, TLC

VARIABLES
    started,              \* the load handler found the sidebar and installed the observers
    lastNotifiedContent,  \* Map<string, string>: href -> last notified content
    currentBadgeCount,    \* what the badge shows
    consecutiveZeroCount, \* zero readings in a row while the badge is shown
    notifications,        \* 'notification' payloads published by the latest handler run
    trayIcon,             \* 'update-tray-icon' payloads published by the latest handler run
    raised,               \* the latest handler run ended in an uncaught TypeError
    actualUnreadCount,    \* the reading of the latest badge evaluation (NoReading: none)
    observedContent,      \* href -> content compared by the latest countUnread pass
    seenContent,          \* history: href -> content last compared since the last bulk clear
    clearedContent,       \* history: href -> content dropped by the last bulk clear, not compared since
    zeroRun,              \* history: zero readings since the last non-zero one (capped)
    badgeBefore,          \* history: currentBadgeCount before the latest handler run
    renotified,           \* hrefs the latest pass notified again with content a bulk clear had dropped
    notifiedBody,         \* history: href -> body content of its latest notification since the last bulk clear
    lastNonZeroReading,   \* history: the latest reading above 0 of a badge evaluation (kept under SpecTrace)
    sinceNotified,        \* history: href -> what happened since its latest notification (kept under SpecTrace)
    mutations,            \* history: the batch the latest countUnread pass was called with (kept under SpecBatch)
    listChildren,         \* the children of the conversation list container, in document order
    dom,                  \* list child -> its row element (label element, profile image, markers)
    recordQueued,         \* a mutation record waits for the conversationListObserver callback
    rebuilds,             \* sendConversationList calls suspended on icon loading, oldest first
    conversations,        \* the latest 'conversations' payload (NoPayload: none yet)
    builtFrom,            \* history: the children the rebuild of the latest payload enumerated
    unparsedLabel,        \* the label element of one row of the sidebar (SpecLabel)
    labels                \* history: what the getLabel calls on that element returned, in order

badgeVars == <<lastNotifiedContent, currentBadgeCount, consecutiveZeroCount,
               notifications, trayIcon, raised, actualUnreadCount, observedContent,
               seenContent, clearedContent, zeroRun, badgeBefore, renotified, mutations,
               notifiedBody, lastNonZeroReading, sinceNotified>>

listVars == <<listChildren, dom, recordQueued, rebuilds, conversations, builtFrom,
              unparsedLabel, labels>>

vars == <<started, badgeVars, listVars>>

---------------------------------------------------------------------------
(* Bounds *)

\* mutation records delivered to one observer callback
MaxBatch == 2
\* sendConversationList calls suspended at the same time
MaxRebuilds == 2
\* extractions of the label of one row
MaxExtractions == 2
\* rows under [role=grid] when the badge is evaluated
MaxRows == 3

(* Program constants *)

ZERO_CONFIRMATION_THRESHOLD == 3

NoReading == 0 - 1

---------------------------------------------------------------------------
(* Maps (Map<string, string>) *)

EmptyMap == [k \in {} |-> <<>>]

MapHas(m, k) == k \in DOMAIN m

MapSet(m, k, v) == [x \in (DOMAIN m) \cup {k} |-> IF x = k THEN v ELSE m[x]]

MapDrop(m, ks) == [x \in (DOMAIN m) \ ks |-> m[x]]

---------------------------------------------------------------------------
(* The document: nodes, text slots, rows *)

Txt(data) == [kind |-> "text", data |-> data]
Img(alt) == [kind |-> "img", alt |-> alt]
Span(children) == [kind |-> "span", children |-> children]
Slot(children) == [kind |-> "div", children |-> children]

ThumbsUp == <<"U+1F44D">>

RECURSIVE textContent(_)
textContent(children) ==
    IF children = <<>> THEN <<>>
    ELSE LET n == Head(children)
             own == CASE n.kind = "text" -> n.data
                      [] n.kind = "img" -> <<>>
                      [] OTHER -> textContent(n.children)
         IN own \o textContent(Tail(children))

Images(children) == SelectSeq(children, LAMBDA n : n.kind = "img")

emojiString(alt) ==
    IF alt = <<"(", "Y", ")">> \/ alt = <<"(", "y", ")">> THEN ThumbsUp ELSE alt

\* One child of the cloned slot after the image substitution: the parent of
\* an image is replaced by the image's (mapped) alt text.  A parent that is
\* the clone itself, or one already detached by an earlier image, has no
\* parent of its own and replaceWith does nothing.
RECURSIVE substituted(_)
substituted(children) ==
    IF children = <<>> THEN <<>>
    ELSE LET n == Head(children)
             own == CASE n.kind = "text" -> n.data
                      [] n.kind = "img" -> <<>>
                      [] OTHER ->
                           IF Images(n.children) # <<>>
                           THEN emojiString(Head(Images(n.children)).alt)
                           ELSE textContent(n.children)
         IN own \o substituted(Tail(children))

generateStringFromNode(element) == substituted(element.children)

NoRow == [kind |-> "null"]

Row(grid, href, unread, caprineIcon, textOptions) ==
    [kind |-> "row", grid |-> grid, href |-> href, unread |-> unread,
     caprineIcon |-> caprineIcon, textOptions |-> textOptions]

\* a predicate every row satisfies
isUnreadConversation_always(element) == TRUE

\* lines 142-150: the row holds the 'Unread message:' label
isUnreadConversation(element) == element.unread

---------------------------------------------------------------------------
(* Documents the host page shows: permalinks, text slots, rows, records *)

\* '/1' and '/t/12345' as code points
Href1 == <<47, 49>>
Href2 == <<47, 116, 47, 49, 50, 51, 52, 53>>
Hrefs == {Href1, Href2}

IconData == "data:image/png;base64,AAAA"

TitleAlice == Slot(<<Txt(<<"A", "l">>)>>)
TitleEmpty == Slot(<<>>)
BodyHi == Slot(<<Txt(<<"H", "i">>)>>)
BodyThumb == Slot(<<Span(<<Img(<<"(", "Y", ")">>)>>)>>)
BodyEmpty == Slot(<<>>)

\* well-formed unread rows of the first conversation: a text body, no body
\* slot, an empty body slot
UnreadRows ==
    {Row(TRUE, Href1, TRUE, IconData, <<TitleAlice, BodyHi>>),
     Row(TRUE, Href1, TRUE, IconData, <<TitleAlice>>),
     Row(TRUE, Href1, TRUE, IconData, <<TitleAlice, BodyEmpty>>)}

\* the row of the second conversation, with an emoji image as its body
PromotedRow == Row(TRUE, Href2, TRUE, IconData, <<TitleAlice, BodyThumb>>)

ReadRows == {Row(TRUE, Href1, FALSE, IconData, <<TitleAlice, BodyHi>>)}

\* unread rows lacking one thing each: the grid, the permalink, the cached
\* icon, the text slots, the title text
DefectRows ==
    {Row(FALSE, Href1, TRUE, IconData, <<TitleAlice, BodyHi>>),
     Row(TRUE, <<>>, TRUE, IconData, <<TitleAlice, BodyHi>>),
     Row(TRUE, Href1, TRUE, "", <<TitleAlice, BodyHi>>),
     Row(TRUE, Href1, TRUE, IconData, <<>>),
     Row(TRUE, Href1, TRUE, IconData, <<TitleEmpty, BodyHi>>)}

Rows == UnreadRows \cup ReadRows \cup DefectRows

\* a record whose target lies in a row, one whose target has no row around
\* it, and the grid's record of a row moved to the top of the list;
\* closest: the nearest [role=row] ancestor of the record's target (NoRow when
\* the target has no parent element or no such ancestor)
MutationRecord(type, closest, addedNodes) ==
    [type |-> type, closest |-> closest, addedNodes |-> addedNodes]

Records ==
    {MutationRecord("characterData", r, <<>>) : r \in Rows}
    \cup {MutationRecord("attributes", NoRow, <<>>),
          MutationRecord("childList", NoRow,
                         <<Txt(<<"x">>), PromotedRow>>)}

MutationBatches == UNION {[1..n -> Records] : n \in 1..MaxBatch}

\* what document.querySelectorAll('[role=grid] [role=row]') returns
GridRow(unread) == Row(TRUE, Href1, unread, IconData, <<TitleAlice, BodyHi>>)
GridSnapshots == UNION {[1..n -> {GridRow(TRUE), GridRow(FALSE)}] : n \in 0..MaxRows}

---------------------------------------------------------------------------
(* countUnread *)

\* line 300 computes ((hash * 31) + code) % 2_147_483_647 in double precision,
\* where the product (below 2^36) is exact.  The product is outside the
\* integers of the model checker, so the same residue is computed without
\* leaving 0..HashModulus: with q = HashModulus \div 31 and HashModulus =
\* 31 * q + 1, 31 * a is congruent to 31 * (a % q) - (a \div q).
HashModulus == 2147483647

addMod(a, b) == IF a >= HashModulus - b THEN a - (HashModulus - b) ELSE a + b

times31Mod(a) ==
    IF 31 * (a % (HashModulus \div 31)) >= a \div (HashModulus \div 31)
    THEN 31 * (a % (HashModulus \div 31)) - (a \div (HashModulus \div 31))
    ELSE HashModulus - ((a \div (HashModulus \div 31)) - 31 * (a % (HashModulus \div 31)))

RECURSIVE conversationIdFrom(_, _)
conversationIdFrom(href, hash) ==
    IF href = <<>> THEN hash
    ELSE conversationIdFrom(Tail(href), addMod(times31Mod(hash), Head(href) % HashModulus))

\* a fold seeded with 1
conversationId_seedOne(href) == conversationIdFrom(href, 1)

\* line 300: the fold over the characters of href, seeded with 0
conversationId(href) == conversationIdFrom(href, 0)

\* lines 239-264: the row a record is about
RECURSIVE firstRow(_)
firstRow(nodes) ==
    IF nodes = <<>> THEN NoRow
    ELSE IF Head(nodes).kind = "row" THEN Head(nodes)
    ELSE firstRow(Tail(nodes))

resolveRow(mutation) ==
    IF mutation.closest # NoRow THEN mutation.closest
    ELSE IF mutation.type = "childList" THEN firstRow(mutation.addedNodes)
    ELSE NoRow

\* a repeat test that ignores the content
isRepeat_anyContent(map, href, currentContent) == MapHas(map, href)

\* line 308: the content is the one last notified for this conversation
isRepeat(map, href, currentContent) ==
    MapHas(map, href) /\ map[href] = currentContent

\* the placeholder body of line 319
NewMessage == <<"N", "e", "w", " ", "m", "e", "s", "s", "a", "g", "e">>

\* a notify that records the content and publishes nothing
notify_unpublished(acc, href, titleText, hasBody, bodyText, imgUrl) ==
    LET currentContent == IF hasBody THEN bodyText ELSE <<>>
    IN [acc EXCEPT !.observed = MapSet(acc.observed, href, currentContent),
                   !.lastNotifiedContent = MapSet(acc.lastNotifiedContent, href, currentContent)]

\* lines 304-322, for a row that passed every check
notify(acc, href, titleText, hasBody, bodyText, imgUrl) ==
    LET currentContent == IF hasBody THEN bodyText ELSE <<>>
        seen == [acc EXCEPT !.observed = MapSet(acc.observed, href, currentContent)]
    IN IF isRepeat(acc.lastNotifiedContent, href, currentContent)
       THEN seen
       ELSE [seen EXCEPT
               !.lastNotifiedContent = MapSet(acc.lastNotifiedContent, href, currentContent),
               !.notifications = Append(acc.notifications,
                   [id |-> conversationId(href),
                    title |-> titleText,
                    body |-> IF hasBody THEN bodyText ELSE NewMessage,
                    icon |-> imgUrl,
                    silent |-> FALSE])]

\* lines 289-297: reading the row's icon and text slots; textOptions[0] is
\* undefined when no element matches the text selector, and cloneNode of
\* undefined is a TypeError that leaves the callback
readRow(acc, current, href) ==
    LET textOptions == current.textOptions
        imgUrl == current.caprineIcon
    IN IF Len(textOptions) = 0
       THEN [acc EXCEPT !.raised = TRUE]
       ELSE LET titleText == generateStringFromNode(textOptions[1])
                hasBody == Len(textOptions) >= 2
                bodyText == IF hasBody THEN generateStringFromNode(textOptions[2]) ELSE <<>>
            IN IF titleText = <<>> \/ imgUrl = ""
               THEN acc
               ELSE notify(acc, href, titleText, hasBody, bodyText, imgUrl)

\* a membership test that finds nothing
includes_never(list, x) == FALSE

\* line 278: Array.prototype.includes
includes(list, x) == \E i \in DOMAIN list : list[i] = x

\* a skip that forgets what was notified for the conversation
skipRead_forgets(acc, href) ==
    [acc EXCEPT !.lastNotifiedContent = MapDrop(@, {href})]

\* lines 283-285: a row that is not unread is passed over
skipRead(acc, href) == acc

\* the body of the for loop, lines 236-322
processRecord(acc, mutation) ==
    LET current == resolveRow(mutation)
    IN IF current = NoRow THEN acc
       ELSE IF ~current.grid THEN acc
       ELSE IF current.href = <<>> THEN acc
       ELSE IF includes(acc.alreadyChecked, current.href) THEN acc
       ELSE IF ~isUnreadConversation(current) THEN skipRead(acc, current.href)
       ELSE readRow([acc EXCEPT !.alreadyChecked = Append(acc.alreadyChecked, current.href)],
                    current, current.href)

\* the loop over mutationsList.reverse(): latest record first
RECURSIVE countUnreadFrom(_, _, _)
countUnreadFrom(mutationsList, i, acc) ==
    IF i = 0 \/ acc.raised THEN acc
    ELSE countUnreadFrom(mutationsList, i - 1, processRecord(acc, mutationsList[i]))

countUnread(mutationsList, map) ==
    countUnreadFrom(mutationsList, Len(mutationsList),
                    [alreadyChecked |-> <<>>, lastNotifiedContent |-> map,
                     notifications |-> <<>>, raised |-> FALSE, observed |-> EmptyMap])

---------------------------------------------------------------------------
(* updateTrayIcon *)

getUnreadCount(rows) ==
    Cardinality({i \in DOMAIN rows : isUnreadConversation(rows[i])})

\* a rise that never lowers the badge and keeps the zero run
showUnread_onlyRises(actual, badge, zeroCount, map) ==
    [currentBadgeCount |-> IF actual > badge THEN actual ELSE badge,
     consecutiveZeroCount |-> zeroCount, lastNotifiedContent |-> map]

\* a rise that forgets the notified content
showUnread_forgets(actual, badge, zeroCount, map) ==
    [currentBadgeCount |-> actual, consecutiveZeroCount |-> 0, lastNotifiedContent |-> EmptyMap]

\* a rise that applies only while no badge is shown
showUnread_keepsBadge(actual, badge, zeroCount, map) ==
    [currentBadgeCount |-> IF badge > 0 THEN badge ELSE actual,
     consecutiveZeroCount |-> 0, lastNotifiedContent |-> map]

\* lines 356-358: unread rows are shown at once
showUnread(actual, badge, zeroCount, map) ==
    [currentBadgeCount |-> actual, consecutiveZeroCount |-> 0, lastNotifiedContent |-> map]

\* a confirmation that needs one more zero reading
zeroConfirmed_late(zeroCount) == zeroCount > ZERO_CONFIRMATION_THRESHOLD

\* a confirmation that needs one zero reading fewer
zeroConfirmed_early(zeroCount) == zeroCount >= ZERO_CONFIRMATION_THRESHOLD - 1

\* line 369
zeroConfirmed(zeroCount) == zeroCount >= ZERO_CONFIRMATION_THRESHOLD

\* a confirmed zero that keeps the notified content
clearBadge_keepsContent(map) ==
    [currentBadgeCount |-> 0, consecutiveZeroCount |-> 0, lastNotifiedContent |-> map]

\* lines 370-372: the confirmed zero clears the badge and the notified content
clearBadge(map) ==
    [currentBadgeCount |-> 0, consecutiveZeroCount |-> 0, lastNotifiedContent |-> EmptyMap]

\* lines 353-375: the badge state and the map after one evaluation
updateTrayIcon(actual, badge, zeroCount, map) ==
    IF actual > 0
    THEN showUnread(actual, badge, zeroCount, map)
    ELSE IF actual = 0 /\ badge > 0
    THEN IF zeroConfirmed(zeroCount + 1)
         THEN clearBadge(map)
         ELSE [currentBadgeCount |-> badge, consecutiveZeroCount |-> zeroCount + 1,
               lastNotifiedContent |-> map]
    ELSE [currentBadgeCount |-> badge, consecutiveZeroCount |-> zeroCount,
          lastNotifiedContent |-> map]

\* a payload that is the reading instead of the badge
trayIconPayload_reading(actual, after) == actual

\* line 377: the value sent on 'update-tray-icon'
trayIconPayload(actual, after) == after.currentBadgeCount

---------------------------------------------------------------------------
(* The conversation list: getLabel, getIcon, createConversationList *)

NoElement == [kind |-> "undefined"]

Label(children, ariaLabel) == [kind |-> "label", children |-> children, ariaLabel |-> ariaLabel]

\* <<>> stands for an attribute that is not set
Image(src) == [kind |-> "img", src |-> src, iconRead |-> <<>>, iconUnread |-> <<>>]

ListRow(label, img, unread, selected) ==
    [kind |-> "row", label |-> label, img |-> img, unread |-> unread, selected |-> selected]

\* icon.read, the name of the attribute
iconReadName == <<"data-caprine-icon">>

\* createIcons: the data URL before and after the unread marker is drawn
createIcons(element, url) ==
    [element EXCEPT !.iconRead = <<"data:image/png", url>>,
                    !.iconUnread = <<"data:image/png", url, "marker">>]

RECURSIVE trimStart(_)
trimStart(s) == IF s # <<>> /\ Head(s) = " " THEN trimStart(Tail(s)) ELSE s

RECURSIVE trimEnd(_)
trimEnd(s) == IF s # <<>> /\ s[Len(s)] = " " THEN trimEnd(SubSeq(s, 1, Len(s) - 1)) ELSE s

trim(s) == trimEnd(trimStart(s))

\* lines 125-132: every child element becomes the alt text of the first
\* image inside it (nothing when it holds no image); text nodes stay
RECURSIVE altSubstituted(_)
altSubstituted(children) ==
    IF children = <<>> THEN <<>>
    ELSE LET n == Head(children)
             own == CASE n.kind = "text" -> <<n>>
                      [] n.kind = "img" -> <<>>
                      [] OTHER ->
                           IF Images(n.children) # <<>> /\ Head(Images(n.children)).alt # <<>>
                           THEN <<Txt(Head(Images(n.children)).alt)>>
                           ELSE <<>>
         IN own \o altSubstituted(Tail(children))

\* a getLabel that keeps the text it read before the rewrite
getLabel_stale(element) ==
    IF element = NoElement THEN [label |-> <<>>, element |-> element]
    ELSE LET text == textContent(element.children)
             label == IF trim(text) = <<>> /\ trim(element.ariaLabel) # <<>>
                      THEN element.ariaLabel ELSE text
         IN IF trim(label) = <<>>
            THEN [label |-> trim(label),
                  element |-> [element EXCEPT !.children = altSubstituted(element.children)]]
            ELSE [label |-> trim(label), element |-> element]

\* lines 110-138: the label and the label element as getLabel leaves it
getLabel(element) ==
    IF element = NoElement THEN [label |-> <<>>, element |-> element]
    ELSE LET text == textContent(element.children)
             label == IF trim(text) = <<>> /\ trim(element.ariaLabel) # <<>>
                      THEN element.ariaLabel ELSE text
         IN IF trim(label) = <<>>
            THEN LET after == [element EXCEPT !.children = altSubstituted(element.children)]
                 IN [label |-> trim(textContent(after.children)), element |-> after]
            ELSE [label |-> trim(label), element |-> element]

\* lines 152-173: what createConversationNewDesign reads before it awaits
\* the icon, and the row as the label extraction leaves it
createConversationNewDesign(element) ==
    LET got == getLabel(element.label)
    IN [conversation |-> [selected |-> element.selected, unread |-> element.unread,
                          label |-> got.label, icon |-> <<>>],
        element |-> [element EXCEPT !.label = got.element]]

\* lines 98-108 without the wait: <<>> when the icon has to be discovered first
getIconNow(img, unread) ==
    IF img = NoElement THEN iconReadName
    ELSE IF img.iconRead = <<>> THEN <<>>
    ELSE IF unread THEN img.iconUnread ELSE img.iconRead

withoutLast_keepsAll(elements) == elements

\* elements.splice(-1, 1)
withoutLast(elements) == SubSeq(elements, 1, Len(elements) - 1)

labelled_all(results) == results

\* rows without a label are left out
labelled(results) == SelectSeq(results, LAMBDA c : c.label # <<>>)

\* the rebuild a callback starts over the children it finds: one entry per
\* kept child, the icon still <<>> where it is being loaded
startRebuild(children, d) ==
    LET elements == withoutLast(children)
    IN [children |-> children,
        entries |-> [i \in DOMAIN elements |->
            LET made == createConversationNewDesign(d[elements[i]])
            IN [element |-> elements[i],
                conversation |-> [made.conversation EXCEPT
                    !.icon = getIconNow(made.element.img, made.conversation.unread)]]]]

waiting(task) == {i \in DOMAIN task.entries : task.entries[i].conversation.icon = <<>>}

\* the payload of a rebuild whose icons are all there
payload(task) ==
    labelled([i \in DOMAIN task.entries |-> task.entries[i].conversation])

\* the rows after the label extractions of one rebuild
domAfterRebuild(children, d) ==
    [e \in DOMAIN d |->
        IF \E i \in DOMAIN withoutLast(children) : children[i] = e
        THEN createConversationNewDesign(d[e]).element
        ELSE d[e]]

\* the rows of the sidebar: a named conversation with a profile picture, a
\* conversation named by one emoji image and without a picture, a row whose
\* label is blank
ListElements == {"alice", "bob", "blank"}

InitialDom ==
    [e \in ListElements |->
        CASE e = "alice" -> ListRow(Label(<<Txt(<<"A", "l", " ">>)>>, <<>>), Image("a.png"), TRUE, FALSE)
          [] e = "bob" -> ListRow(Label(<<Txt(<<" ">>), Span(<<Img(<<"B">>)>>)>>, <<" ">>),
                                  NoElement, FALSE, TRUE)
          [] OTHER -> ListRow(Label(<<Txt(<<" ">>)>>, <<>>), NoElement, FALSE, FALSE)]

Lists ==
    {l \in UNION {[1..n -> ListElements] : n \in 0..Cardinality(ListElements)} :
        \A i, j \in DOMAIN l : i # j => l[i] # l[j]}

---------------------------------------------------------------------------
(* Handlers *)

Init ==
    /\ started = FALSE
    /\ lastNotifiedContent = EmptyMap
    /\ currentBadgeCount = 0
    /\ consecutiveZeroCount = 0
    /\ notifications = <<>>
    /\ trayIcon = <<>>
    /\ raised = FALSE
    /\ actualUnreadCount = NoReading
    /\ observedContent = EmptyMap
    /\ seenContent = EmptyMap
    /\ clearedContent = EmptyMap
    /\ zeroRun = 0
    /\ badgeBefore = 0
    /\ renotified = {}
    /\ mutations = <<>>
    /\ notifiedBody = EmptyMap
    /\ lastNonZeroReading = NoReading
    /\ sinceNotified = EmptyMap
    /\ listChildren = <<>>
    /\ dom = InitialDom
    /\ recordQueued = FALSE
    /\ rebuilds = <<>>
    /\ conversations = <<>>
    /\ builtFrom = <<>>
    /\ unparsedLabel = NoElement
    /\ labels = <<>>

\* one evaluation of the badge against the rows the grid query returns
Evaluate(rows) ==
    \E actual \in {getUnreadCount(rows)} :
    \E r \in {updateTrayIcon(actual, currentBadgeCount, consecutiveZeroCount, lastNotifiedContent)} :
    \E clears \in {currentBadgeCount > 0 /\ r.currentBadgeCount = 0} :
       /\ currentBadgeCount' = r.currentBadgeCount
       /\ consecutiveZeroCount' = r.consecutiveZeroCount
       /\ lastNotifiedContent' = r.lastNotifiedContent
       /\ trayIcon' = <<trayIconPayload(actual, r)>>
       /\ badgeBefore' = currentBadgeCount
       /\ renotified' = {}
       /\ mutations' = <<>>
       /\ notifiedBody' = IF clears THEN EmptyMap ELSE notifiedBody
       /\ notifications' = <<>>
       /\ raised' = FALSE
       /\ actualUnreadCount' = actual
       /\ observedContent' = EmptyMap
       /\ seenContent' = IF clears THEN EmptyMap ELSE seenContent
       /\ clearedContent' = IF clears THEN seenContent ELSE clearedContent
       /\ zeroRun' = IF actual > 0 THEN 0
                     ELSE IF zeroRun <= ZERO_CONFIRMATION_THRESHOLD THEN zeroRun + 1
                     ELSE zeroRun

\* window 'load', lines 404-443: the sidebar is found, the observers are
\* installed, the badge is evaluated once and polling starts
Load ==
    /\ ~started
    /\ started' = TRUE
    /\ \E rows \in GridSnapshots : Evaluate(rows)
    /\ UNCHANGED <<listVars, lastNonZeroReading, sinceNotified>>

\* the body content a published body stands for: the placeholder is
\* published for a row without a body slot, whose content is ''
contentOf(body) == IF body = NewMessage THEN <<>> ELSE body

\* the notification id of each conversation of the sidebar
HrefIds == [h \in Hrefs |-> conversationId(h)]

\* the conversation a published id stands for
hrefWithId(id) == CHOOSE h \in Hrefs : HrefIds[h] = id

\* the history of published bodies after the notifications ns, in the
\* order they were published
RECURSIVE notifiedAfter(_, _)
notifiedAfter(history, ns) ==
    IF ns = <<>> THEN history
    ELSE notifiedAfter(MapSet(history, hrefWithId(Head(ns).id), contentOf(Head(ns).body)),
                       Tail(ns))

\* one call of countUnread with the records of one callback
CountPass(mutationsList) ==
    \E r \in {countUnread(mutationsList, lastNotifiedContent)} :
         /\ lastNotifiedContent' = r.lastNotifiedContent
         /\ notifications' = r.notifications
         /\ raised' = r.raised
         /\ observedContent' = r.observed
         /\ notifiedBody' = notifiedAfter(notifiedBody, r.notifications)
         /\ seenContent' = [h \in (DOMAIN seenContent) \cup (DOMAIN r.observed) |->
                              IF h \in DOMAIN r.observed THEN r.observed[h] ELSE seenContent[h]]
         /\ clearedContent' = MapDrop(clearedContent, DOMAIN r.observed)
         /\ renotified' = {h \in (DOMAIN clearedContent) \cap (DOMAIN r.observed) :
                             /\ r.observed[h] = clearedContent[h]
                             /\ \E i \in DOMAIN r.notifications :
                                   r.notifications[i].id = conversationId(h)}
         /\ trayIcon' = <<>>
         /\ actualUnreadCount' = NoReading
         /\ badgeBefore' = currentBadgeCount
         /\ UNCHANGED <<started, currentBadgeCount, consecutiveZeroCount, zeroRun, listVars>>

\* conversationCountObserver, line 409
ConversationCountObserver ==
    /\ started
    /\ \E mutationsList \in MutationBatches : CountPass(mutationsList)
    /\ mutations' = <<>>
    /\ UNCHANGED <<lastNonZeroReading, sinceNotified>>

\* trayIconObserver, line 410
TrayIconObserver ==
    /\ started
    /\ \E rows \in GridSnapshots : Evaluate(rows)
    /\ UNCHANGED <<started, listVars, lastNonZeroReading, sinceNotified>>

\* startBadgePolling, lines 382-386
PollTimer ==
    /\ started
    /\ \E rows \in GridSnapshots : Evaluate(rows)
    /\ UNCHANGED <<started, listVars, lastNonZeroReading, sinceNotified>>

\* setupFocusTriggers, lines 392-394
WindowFocus ==
    /\ started
    /\ \E rows \in GridSnapshots : Evaluate(rows)
    /\ UNCHANGED <<started, listVars, lastNonZeroReading, sinceNotified>>

\* setupFocusTriggers, lines 397-401
VisibilityChange ==
    /\ started
    /\ \E hidden \in BOOLEAN :
         IF ~hidden
         THEN \E rows \in GridSnapshots : Evaluate(rows)
         ELSE /\ trayIcon' = <<>>
              /\ notifications' = <<>>
              /\ raised' = FALSE
              /\ actualUnreadCount' = NoReading
              /\ observedContent' = EmptyMap
              /\ badgeBefore' = currentBadgeCount
              /\ renotified' = {}
              /\ mutations' = <<>>
              /\ UNCHANGED <<lastNotifiedContent, currentBadgeCount, consecutiveZeroCount,
                             seenContent, clearedContent, zeroRun, notifiedBody>>
    /\ UNCHANGED <<started, listVars, lastNonZeroReading, sinceNotified>>

Next ==
    \/ Load
    \/ ConversationCountObserver
    \/ TrayIconObserver
    \/ PollTimer
    \/ WindowFocus
    \/ VisibilityChange

Spec == Init /\ [][Next]_vars

---------------------------------------------------------------------------
(* The conversation list handlers *)

\* in-flight rebuilds the callbacks after a change of the list will add:
\* one when an icon has to be loaded, and one more when a label extraction
\* rewrites the sidebar and so queues a record of its own
rebuildsAdded(children, d) ==
    IF waiting(startRebuild(children, d)) = {} THEN 0
    ELSE IF domAfterRebuild(children, d) # d THEN 2
    ELSE 1

\* the host page changes the children of the list container (or touches a
\* class attribute and leaves them as they are)
HostMutation ==
    /\ started
    /\ ~recordQueued
    /\ \E children \in Lists :
         /\ Len(rebuilds) + rebuildsAdded(children, dom) <= MaxRebuilds
         /\ listChildren' = children
    /\ recordQueued' = TRUE
    /\ UNCHANGED <<started, badgeVars, dom, rebuilds, conversations, builtFrom,
                   unparsedLabel, labels>>

\* conversationListObserver: sendConversationList up to its first wait for
\* an image, or to the end when no image has to be loaded
ConversationListObserver ==
    /\ started
    /\ recordQueued
    /\ \E task \in {startRebuild(listChildren, dom)} :
         IF waiting(task) = {}
         THEN /\ conversations' = <<payload(task)>>
              /\ builtFrom' = task.children
              /\ UNCHANGED rebuilds
         ELSE /\ rebuilds' = Append(rebuilds, task)
              /\ UNCHANGED <<conversations, builtFrom>>
    /\ dom' = domAfterRebuild(listChildren, dom)
    /\ recordQueued' = (dom' # dom)
    /\ UNCHANGED <<started, badgeVars, listChildren, unparsedLabel, labels>>

\* the 'load' event of an image a rebuild waits for, and the rest of that
\* rebuild when it was its last image
ImageLoaded ==
    /\ ~recordQueued
    /\ \E t \in DOMAIN rebuilds : \E i \in waiting(rebuilds[t]) :
         \E e \in {rebuilds[t].entries[i].element} :
         \E img \in {createIcons(dom[e].img, dom[e].img.src)} :
         \E task \in {[rebuilds[t] EXCEPT !.entries[i].conversation.icon =
                          IF rebuilds[t].entries[i].conversation.unread
                          THEN img.iconUnread ELSE img.iconRead]} :
            /\ dom' = [dom EXCEPT ![e].img = img]
            /\ IF waiting(task) = {}
               THEN /\ conversations' = <<payload(task)>>
                    /\ builtFrom' = task.children
                    /\ rebuilds' = [k \in 1..(Len(rebuilds) - 1) |->
                                      IF k < t THEN rebuilds[k] ELSE rebuilds[k + 1]]
               ELSE /\ rebuilds' = [rebuilds EXCEPT ![t] = task]
                    /\ UNCHANGED <<conversations, builtFrom>>
    /\ UNCHANGED <<started, badgeVars, listChildren, recordQueued, unparsedLabel, labels>>

\* the page after the load handler ran over a grid without rows
InitList ==
    /\ started = TRUE
    /\ lastNotifiedContent = EmptyMap
    /\ currentBadgeCount = 0
    /\ consecutiveZeroCount = 0
    /\ notifications = <<>>
    /\ trayIcon = <<0>>
    /\ raised = FALSE
    /\ actualUnreadCount = 0
    /\ observedContent = EmptyMap
    /\ seenContent = EmptyMap
    /\ clearedContent = EmptyMap
    /\ zeroRun = 1
    /\ badgeBefore = 0
    /\ renotified = {}
    /\ mutations = <<>>
    /\ notifiedBody = EmptyMap
    /\ lastNonZeroReading = NoReading
    /\ sinceNotified = EmptyMap
    /\ listChildren = <<>>
    /\ dom = InitialDom
    /\ recordQueued = FALSE
    /\ rebuilds = <<>>
    /\ conversations = <<>>
    /\ builtFrom = <<>>
    /\ unparsedLabel = NoElement
    /\ labels = <<>>

NextList ==
    \/ HostMutation
    \/ ConversationListObserver
    \/ ImageLoaded

SpecList == InitList /\ [][NextList]_vars

---------------------------------------------------------------------------
(* countUnread against the batch it was given *)

\* what lastNotifiedContent can hold for the conversations of the sidebar
NotifiedMaps ==
    {m \in UNION {[D -> {<<"H", "i">>, <<>>, ThumbsUp}] : D \in SUBSET Hrefs} :
        /\ Href1 \in DOMAIN m => m[Href1] # ThumbsUp
        /\ Href2 \in DOMAIN m => m[Href2] = ThumbsUp}

\* the page after the load handler ran over a grid without rows and earlier
\* callbacks left lastNotifiedContent in one of its states
InitBatch ==
    /\ started = TRUE
    /\ lastNotifiedContent \in NotifiedMaps
    /\ currentBadgeCount = 0
    /\ consecutiveZeroCount = 0
    /\ notifications = <<>>
    /\ trayIcon = <<0>>
    /\ raised = FALSE
    /\ actualUnreadCount = 0
    /\ observedContent = EmptyMap
    /\ seenContent = lastNotifiedContent
    /\ clearedContent = EmptyMap
    /\ zeroRun = 1
    /\ badgeBefore = 0
    /\ renotified = {}
    /\ mutations = <<>>
    /\ notifiedBody = lastNotifiedContent
    /\ lastNonZeroReading = NoReading
    /\ sinceNotified = EmptyMap
    /\ listChildren = <<>>
    /\ dom = InitialDom
    /\ recordQueued = FALSE
    /\ rebuilds = <<>>
    /\ conversations = <<>>
    /\ builtFrom = <<>>
    /\ unparsedLabel = NoElement
    /\ labels = <<>>

\* conversationCountObserver, line 409: the next callback, its batch kept
ConversationCountObserverBatch ==
    /\ started
    /\ mutations = <<>>
    /\ \E mutationsList \in MutationBatches :
         /\ CountPass(mutationsList)
         /\ mutations' = mutationsList
    /\ UNCHANGED <<lastNonZeroReading, sinceNotified>>

NextBatch == ConversationCountObserverBatch

\* one callback of the count observer, for every batch and every state of
\* lastNotifiedContent
SpecBatch == InitBatch /\ [][NextBatch]_vars

---------------------------------------------------------------------------
(* getLabel against the label elements a row can hold *)

LabelNodes ==
    {Txt(<<" ">>), Txt(<<"A", "l", " ">>), Img(<<"X">>),
     Span(<<Img(<<"B">>)>>), Span(<<Img(<<>>)>>), Span(<<Txt(<<" ">>)>>)}

LabelElements ==
    {Label(children, ariaLabel) :
        children \in UNION {[1..n -> LabelNodes] : n \in 0..2},
        ariaLabel \in {<<>>, <<" ">>, <<" ", "B", "o">>}}
    \cup {NoElement}

InitLabel ==
    /\ started = TRUE
    /\ lastNotifiedContent = EmptyMap
    /\ currentBadgeCount = 0
    /\ consecutiveZeroCount = 0
    /\ notifications = <<>>
    /\ trayIcon = <<0>>
    /\ raised = FALSE
    /\ actualUnreadCount = 0
    /\ observedContent = EmptyMap
    /\ seenContent = EmptyMap
    /\ clearedContent = EmptyMap
    /\ zeroRun = 1
    /\ badgeBefore = 0
    /\ renotified = {}
    /\ mutations = <<>>
    /\ notifiedBody = EmptyMap
    /\ lastNonZeroReading = NoReading
    /\ sinceNotified = EmptyMap
    /\ listChildren = <<>>
    /\ dom = InitialDom
    /\ recordQueued = FALSE
    /\ rebuilds = <<>>
    /\ conversations = <<>>
    /\ builtFrom = <<>>
    /\ unparsedLabel \in LabelElements
    /\ labels = <<>>

\* line 173: one more rebuild reads the label of the row
GetLabel ==
    /\ Len(labels) < MaxExtractions
    /\ \E got \in {getLabel(unparsedLabel)} :
         /\ labels' = Append(labels, got.label)
         /\ unparsedLabel' = got.element
    /\ UNCHANGED <<started, badgeVars, listChildren, dom, recordQueued, rebuilds,
                   conversations, builtFrom>>

NextLabel == GetLabel

SpecLabel == InitLabel /\ [][NextLabel]_vars

---------------------------------------------------------------------------
(* The handlers with a trace of the readings and of each conversation *)

\* what is known of a conversation right after a notification for it
JustNotified == [read |-> FALSE, readings |-> "none"]

\* the readings since a notification, one more taken: "zero" once a reading
\* was 0, "above" while every reading was above 0
readingsWith(readings, actual) ==
    IF actual = 0 \/ readings = "zero" THEN "zero" ELSE "above"

\* the trace after an evaluation that read actual
tracedReading(trace, actual) ==
    [h \in DOMAIN trace |-> [trace[h] EXCEPT !.readings = readingsWith(@, actual)]]

\* a record of the batch shows the conversation's row in the grid as read
readIn(mutationsList, href) ==
    \E i \in DOMAIN mutationsList :
        \E row \in {resolveRow(mutationsList[i])} :
            /\ row # NoRow
            /\ row.grid
            /\ row.href = href
            /\ ~isUnreadConversation(row)

\* the trace after a countUnread pass over mutationsList that published ns
tracedPass(trace, mutationsList, ns) ==
    [h \in (DOMAIN trace) \cup {hrefWithId(ns[i].id) : i \in DOMAIN ns} |->
        IF \E i \in DOMAIN ns : ns[i].id = HrefIds[h] THEN JustNotified
        ELSE IF readIn(mutationsList, h) THEN [trace[h] EXCEPT !.read = TRUE]
        ELSE trace[h]]

\* one evaluation, kept in the trace
EvaluateTraced(rows) ==
    /\ Evaluate(rows)
    /\ lastNonZeroReading' =
          IF getUnreadCount(rows) > 0 THEN getUnreadCount(rows) ELSE lastNonZeroReading
    /\ sinceNotified' = tracedReading(sinceNotified, getUnreadCount(rows))

\* window 'load', lines 404-443
LoadTraced ==
    /\ ~started
    /\ started' = TRUE
    /\ \E rows \in GridSnapshots : EvaluateTraced(rows)
    /\ UNCHANGED listVars

\* the callbacks that deliver one record
SingleRecordBatches == {<<mutation>> : mutation \in Records}

\* conversationCountObserver, line 409, for a callback with one record
ConversationCountObserverTraced ==
    /\ started
    /\ \E mutationsList \in SingleRecordBatches :
         /\ CountPass(mutationsList)
         /\ sinceNotified' = tracedPass(sinceNotified, mutationsList, notifications')
    /\ mutations' = <<>>
    /\ UNCHANGED lastNonZeroReading

\* trayIconObserver, line 410
TrayIconObserverTraced ==
    /\ started
    /\ \E rows \in GridSnapshots : EvaluateTraced(rows)
    /\ UNCHANGED <<started, listVars>>

\* startBadgePolling, lines 382-386
PollTimerTraced ==
    /\ started
    /\ \E rows \in GridSnapshots : EvaluateTraced(rows)
    /\ UNCHANGED <<started, listVars>>

\* setupFocusTriggers, lines 392-394
WindowFocusTraced ==
    /\ started
    /\ \E rows \in GridSnapshots : EvaluateTraced(rows)
    /\ UNCHANGED <<started, listVars>>

\* setupFocusTriggers, lines 397-401
VisibilityChangeTraced ==
    /\ started
    /\ \E hidden \in BOOLEAN :
         IF ~hidden
         THEN \E rows \in GridSnapshots : EvaluateTraced(rows)
         ELSE /\ trayIcon' = <<>>
              /\ notifications' = <<>>
              /\ raised' = FALSE
              /\ actualUnreadCount' = NoReading
              /\ observedContent' = EmptyMap
              /\ badgeBefore' = currentBadgeCount
              /\ renotified' = {}
              /\ mutations' = <<>>
              /\ UNCHANGED <<lastNotifiedContent, currentBadgeCount, consecutiveZeroCount,
                             seenContent, clearedContent, zeroRun, notifiedBody,
                             lastNonZeroReading, sinceNotified>>
    /\ UNCHANGED <<started, listVars>>

NextTrace ==
    \/ LoadTraced
    \/ ConversationCountObserverTraced
    \/ TrayIconObserverTraced
    \/ PollTimerTraced
    \/ WindowFocusTraced
    \/ VisibilityChangeTraced

\* the page from construction on, with the trace kept
SpecTrace == Init /\ [][NextTrace]_vars

\* the poll timer keeps firing for the lifetime of the page (setInterval)
FairSpec == Spec /\ WF_vars(PollTimer)

---------------------------------------------------------------------------
(* Properties *)

NotificationsFor(ns, href) ==
    Cardinality({i \in DOMAIN ns : ns[i].id = conversationId(href)})

\* C1: an evaluation that reads 0 while the badge shows a count clears the
\* badge exactly when the reading is the 3rd zero in a row since the last
\* non-zero reading, and otherwise leaves the badge as it was; the badge
\* after the evaluation is what it publishes.
C1_DebouncedFall ==
    (actualUnreadCount = 0 /\ badgeBefore > 0) =>
        /\ trayIcon = <<currentBadgeCount>>
        /\ IF zeroRun = ZERO_CONFIRMATION_THRESHOLD
           THEN currentBadgeCount = 0
           ELSE currentBadgeCount = badgeBefore

C1_Witness ==
    /\ actualUnreadCount = 0
    /\ badgeBefore = 2
    /\ zeroRun = ZERO_CONFIRMATION_THRESHOLD
    /\ trayIcon = <<0>>

\* C2: an evaluation that reads n > 0 sets the badge to n, resets the zero
\* count and publishes n, whatever the badge state was.
C2_ImmediateRise ==
    actualUnreadCount > 0 =>
        /\ currentBadgeCount = actualUnreadCount
        /\ consecutiveZeroCount = 0
        /\ trayIcon = <<actualUnreadCount>>

C2_Witness ==
    /\ actualUnreadCount = 1
    /\ badgeBefore = 2
    /\ zeroRun = 0
    /\ trayIcon = <<1>>

\* C3: a pass that compares a conversation's content publishes no
\* notification for it when the previous comparison since the last bulk
\* clear saw the same content, and exactly one otherwise.
C3_CrossBatchDedup ==
    [][\A h \in DOMAIN observedContent' :
         NotificationsFor(notifications', h) =
            IF h \in DOMAIN seenContent /\ seenContent[h] = observedContent'[h]
            THEN 0 ELSE 1]_vars

C3_Witness ==
    /\ ~raised
    /\ \E h \in DOMAIN observedContent : NotificationsFor(notifications, h) = 0
    /\ \E h \in DOMAIN observedContent : NotificationsFor(notifications, h) = 1

\* C4: the evaluation that takes the badge from a count to 0 empties
\* lastNotifiedContent, and the next pass that compares content the clear
\* dropped publishes a notification for it again.
C4_ConfirmedZeroRearms ==
    [][/\ (currentBadgeCount > 0 /\ currentBadgeCount' = 0) =>
              DOMAIN lastNotifiedContent' = {}
       /\ \A h \in DOMAIN clearedContent :
              (h \in DOMAIN observedContent' /\ observedContent'[h] = clearedContent[h]) =>
                  NotificationsFor(notifications', h) = 1]_vars

C4_Witness == renotified # {}

\* C5: the badge never decreases except to 0, and to 0 only in an
\* evaluation where consecutiveZeroCount reaches the threshold.
C5_OnlyDecreasesToZero ==
    [][currentBadgeCount' < currentBadgeCount =>
          /\ currentBadgeCount' = 0
          /\ consecutiveZeroCount + 1 = ZERO_CONFIRMATION_THRESHOLD]_vars

\* C5, a lower reading included: the badge decreases only to the reading of that evaluation:
\* to a lower non-zero reading at once, and to 0 only in an evaluation
\* where consecutiveZeroCount reaches the threshold.
C5_DecreasesToReading ==
    [][currentBadgeCount' < currentBadgeCount =>
          /\ currentBadgeCount' = actualUnreadCount'
          /\ currentBadgeCount' = 0 =>
                 consecutiveZeroCount + 1 = ZERO_CONFIRMATION_THRESHOLD]_vars

C5_Witness ==
    /\ 0 < currentBadgeCount
    /\ currentBadgeCount < badgeBefore
    /\ actualUnreadCount = currentBadgeCount

\* C6: every evaluation publishes exactly one 'update-tray-icon' value, the
\* badge after the evaluation; one that reads 0 with the badge at 0 changes
\* no state and publishes 0.
C6_PublishesBadge ==
    [][/\ actualUnreadCount' # NoReading => trayIcon' = <<currentBadgeCount'>>
       /\ (actualUnreadCount' = 0 /\ currentBadgeCount = 0) =>
              /\ UNCHANGED <<currentBadgeCount, consecutiveZeroCount, lastNotifiedContent>>
              /\ trayIcon' = <<0>>]_vars

C6_Witness ==
    /\ actualUnreadCount = 0
    /\ badgeBefore = 0
    /\ trayIcon = <<0>>
    /\ DOMAIN lastNotifiedContent # {}

\* C7: countUnread never raises for any mutation batch.
C7_NeverRaises == raised = FALSE

\* the label, unread flag and selected flag a reader of the page sees in
\* each row of the sidebar
ShownLabel(e) ==
    CASE e = "alice" -> <<"A", "l">>
      [] e = "bob" -> <<"B">>
      [] OTHER -> <<>>

ShownUnread(e) == e = "alice"

ShownSelected(e) == e = "bob"

\* C8: the list a rebuild publishes for a container with N children is the
\* conversations of the first N-1 children that have a non-empty trimmed
\* label, in the order of the rows: it has at most N-1 entries (none when
\* the container is empty) and no entry with the label "".
C8_ListRebuildResult ==
    conversations # <<>> =>
        LET result == conversations[1]
            N == Len(builtFrom)
            kept == SelectSeq(SubSeq(builtFrom, 1, N - 1), LAMBDA e : ShownLabel(e) # <<>>)
        IN /\ Len(result) = Len(kept)
           /\ \A i \in DOMAIN result :
                /\ result[i].label = ShownLabel(kept[i])
                /\ result[i].unread = ShownUnread(kept[i])
                /\ result[i].selected = ShownSelected(kept[i])
                /\ result[i].label # <<>>
           /\ IF N = 0 THEN result = <<>> ELSE Len(result) <= N - 1

\* a rebuild over three rows published one conversation: the blank row was
\* left out and the last row was dropped although it has a label
C8_Witness ==
    /\ builtFrom = <<"alice", "blank", "bob">>
    /\ conversations # <<>>
    /\ Len(conversations[1]) = 1
    /\ conversations[1][1].label = <<"A", "l">>

\* C9: once the sidebar stops changing and every rebuild in flight has
\* completed, the last published list is the list built from the sidebar
\* as it is then.
C9_EventualConsistency ==
    (rebuilds = <<>> /\ ~recordQueued /\ conversations # <<>>) =>
        conversations[1] = payload(startRebuild(listChildren, dom))

\* the records of the latest batch that resolve to the conversation href,
\* by position of arrival
RecordsFor(href) ==
    {i \in DOMAIN mutations :
        resolveRow(mutations[i]) # NoRow /\ resolveRow(mutations[i]).href = href}

\* the body an unread row shows
ShownBody(row) ==
    IF Len(row.textOptions) >= 2 THEN generateStringFromNode(row.textOptions[2]) ELSE <<>>

\* C11: when two records of one batch resolve to the same href with rows in
\* different unread states, the most recently arrived one decides: none is
\* published for the href when its row is read, and what is published for
\* the href shows that row's content when its row is unread.
C11_LatestRecordDecides ==
    \A h \in Hrefs : \A i, j \in RecordsFor(h) :
        (/\ i < j
         /\ \A k \in RecordsFor(h) : k <= j
         /\ resolveRow(mutations[i]).unread # resolveRow(mutations[j]).unread) =>
            IF resolveRow(mutations[j]).unread
            THEN \A n \in DOMAIN notifications :
                    notifications[n].id = conversationId(h) =>
                        observedContent[h] = ShownBody(resolveRow(mutations[j]))
            ELSE NotificationsFor(notifications, h) = 0

\* C12: every published notification carries the body text of its row, or
\* the placeholder 'New message' when that text is empty or the row has no
\* body slot; no published body is empty.
C12_BodyPlaceholder ==
    \A n \in DOMAIN notifications :
        /\ notifications[n].body # <<>>
        /\ \E i \in DOMAIN mutations :
             LET row == resolveRow(mutations[i])
             IN /\ row # NoRow
                /\ row.href # <<>>
                /\ conversationId(row.href) = notifications[n].id
                /\ notifications[n].body =
                      IF ShownBody(row) = <<>> THEN NewMessage ELSE ShownBody(row)

\* the rolling hash of '/1' and of '/t/12345', worked out by hand:
\* 47 * 31 + 49 = 1506, and 1397435653065 mod 2147483647 = 1571282515
KnownId(href) == IF href = Href1 THEN 1506 ELSE 1571282515

\* C13: the ids of the notifications a pass publishes are the rolling
\* hashes of the hrefs it notifies for: a value in 0..2147483646 that
\* depends on the href alone.
C13_NotificationId ==
    [][/\ \A n \in DOMAIN notifications' :
            notifications'[n].id \in 0..2147483646
       /\ {notifications'[n].id : n \in DOMAIN notifications'} =
            {KnownId(h) : h \in {g \in DOMAIN observedContent' :
                ~(g \in DOMAIN seenContent /\ seenContent[g] = observedContent'[g])}}]_vars

\* one pass notified for both conversations; the hash of the longer href
\* went through the modulus
C13_Witness ==
    /\ Len(notifications) = 2
    /\ \E n \in DOMAIN notifications : notifications[n].id = 1506
    /\ \E n \in DOMAIN notifications : notifications[n].id = 1571282515

\* C14: the labels read from one row, with no change by the host page in
\* between, are all the same, also when the first reading rewrote the
\* children of the label element.
C14_LabelIdempotent ==
    \A i, j \in DOMAIN labels : labels[i] = labels[j]

\* two readings of a label held only in image alt text: the first rewrote
\* the element, which now holds text nodes only
C14_Witness ==
    /\ labels = << <<"B">>, <<"B">> >>
    /\ unparsedLabel # NoElement
    /\ \A k \in DOMAIN unparsedLabel.children : unparsedLabel.children[k].kind = "text"
    /\ unparsedLabel.ariaLabel = <<" ">>

\* the title an unread row shows
ShownTitle(row) ==
    IF Len(row.textOptions) >= 1 THEN textContent(row.textOptions[1].children) ELSE <<>>

\* the rows of the latest batch that pass every check of countUnread
NotifiableRows ==
    {row \in {resolveRow(mutations[i]) : i \in DOMAIN mutations} :
        /\ row # NoRow
        /\ row.grid
        /\ row.href # <<>>
        /\ row.unread
        /\ ShownTitle(row) # <<>>
        /\ row.caprineIcon # ""}

\* C15: every published notification is for a row of the batch that is in
\* the grid, has a permalink, is unread and has a title and a cached icon,
\* carries that title and icon and is not silent; records whose rows fail a
\* check publish nothing.
C15_NotificationPreconditions ==
    \A n \in DOMAIN notifications :
        /\ notifications[n].silent = FALSE
        /\ \E row \in NotifiableRows :
             /\ notifications[n].id = KnownId(row.href)
             /\ notifications[n].title = ShownTitle(row)
             /\ notifications[n].icon = row.caprineIcon

\* a batch of a row outside the grid and a row that passes: one notification
C15_Witness ==
    /\ Len(mutations) = 2
    /\ Len(notifications) = 1
    /\ \E i \in DOMAIN mutations :
         resolveRow(mutations[i]) # NoRow /\ ~resolveRow(mutations[i]).grid

\* C16: one batch publishes at most one notification per permalink, however
\* many of its records resolve to it.
C16_OncePerBatch ==
    \A h \in Hrefs :
        Cardinality({n \in DOMAIN notifications : notifications[n].id = KnownId(h)}) <= 1

\* two records of one batch are for the same permalink, both rows pass every
\* check and show different bodies, and one notification was published
C16_Witness ==
    /\ Len(notifications) = 1
    /\ Len(mutations) = 2
    /\ resolveRow(mutations[1]) \in NotifiableRows
    /\ resolveRow(mutations[2]) \in NotifiableRows
    /\ resolveRow(mutations[1]).href = resolveRow(mutations[2]).href
    /\ ShownBody(resolveRow(mutations[1])) # ShownBody(resolveRow(mutations[2]))
    /\ lastNotifiedContent[resolveRow(mutations[1]).href] = ShownBody(resolveRow(mutations[2]))

\* C17: an evaluation of the badge changes lastNotifiedContent only when it
\* is the one that confirms the zero: a reading of 0 with the badge shown
\* and the zero count reaching the threshold.
C17_EvaluationFrame ==
    [][(/\ actualUnreadCount' # NoReading
        /\ ~(/\ actualUnreadCount' = 0
             /\ currentBadgeCount > 0
             /\ consecutiveZeroCount + 1 >= ZERO_CONFIRMATION_THRESHOLD)) =>
            lastNotifiedContent' = lastNotifiedContent]_vars

\* the second zero reading in a row with the badge shown left the notified
\* content of both conversations in place
C17_Witness ==
    /\ actualUnreadCount = 0
    /\ badgeBefore > 0
    /\ currentBadgeCount = badgeBefore
    /\ consecutiveZeroCount = 2
    /\ DOMAIN lastNotifiedContent = Hrefs

\* C18: the icon of a conversation whose row holds no profile image is a
\* rendered icon (a data URL made from a favicon).
C18_IconFallback ==
    conversations # <<>> =>
        \A i \in DOMAIN conversations[1] :
            conversations[1][i].label = ShownLabel("bob") =>
                /\ conversations[1][i].icon # <<>>
                /\ conversations[1][i].icon[1] = "data:image/png"

\* C19: lastNotifiedContent holds an entry for a href only when a
\* notification for it was published since the last bulk clear, and the
\* entry is the body content of the latest such notification.
C19_NotificationState ==
    \A h \in DOMAIN lastNotifiedContent :
        /\ h \in DOMAIN notifiedBody
        /\ lastNotifiedContent[h] = notifiedBody[h]

\* after a bulk clear one conversation was notified again, the other not
C19_Witness ==
    /\ DOMAIN clearedContent # {}
    /\ DOMAIN lastNotifiedContent # {}
    /\ DOMAIN lastNotifiedContent # Hrefs
    /\ notifications # <<>>

\* C20: between handler runs consecutiveZeroCount is in 0..2, the badge is
\* not negative, and a zero run is counted only while a badge is shown.
C20_CounterRanges ==
    /\ 0 <= consecutiveZeroCount
    /\ consecutiveZeroCount < ZERO_CONFIRMATION_THRESHOLD
    /\ currentBadgeCount >= 0
    /\ consecutiveZeroCount > 0 => currentBadgeCount > 0

\* two zero readings counted against a badge of three
C20_Witness ==
    /\ consecutiveZeroCount = ZERO_CONFIRMATION_THRESHOLD - 1
    /\ currentBadgeCount = 3

\* C21: the badge never under-reports: after every evaluation the published
\* value is the badge and is at least the count the evaluation read; and the
\* badge, like every published value, is 0 or the most recent reading
\* above 0.
C21_NeverUnderReports ==
    /\ actualUnreadCount # NoReading =>
          /\ trayIcon = <<currentBadgeCount>>
          /\ currentBadgeCount >= actualUnreadCount
    /\ currentBadgeCount = 0 \/ currentBadgeCount = lastNonZeroReading
    /\ \A i \in DOMAIN trayIcon : trayIcon[i] = 0 \/ trayIcon[i] = lastNonZeroReading

\* the second zero reading in a row, published as the 2 read before it
C21_Witness ==
    /\ actualUnreadCount = 0
    /\ trayIcon = <<2>>
    /\ lastNonZeroReading = 2
    /\ zeroRun = 2

\* C22: an entry of lastNotifiedContent is never removed on its own: it is
\* there after every step except the evaluation that clears the badge on
\* the 3rd zero reading in a row, which empties the map.  And a pass that
\* finds a conversation unread with the body of its latest notification,
\* after its row was found read and with no reading of 0 since that
\* notification, publishes nothing for it.
C22_EntriesPersist ==
    [][\A h \in DOMAIN lastNotifiedContent :
         /\ \/ h \in DOMAIN lastNotifiedContent'
            \/ /\ DOMAIN lastNotifiedContent' = {}
               /\ actualUnreadCount' = 0
               /\ zeroRun' = ZERO_CONFIRMATION_THRESHOLD
               /\ currentBadgeCount > 0
               /\ currentBadgeCount' = 0
         /\ (/\ h \in DOMAIN sinceNotified
             /\ sinceNotified[h].read
             /\ sinceNotified[h].readings # "zero"
             /\ h \in DOMAIN notifiedBody
             /\ h \in DOMAIN observedContent'
             /\ observedContent'[h] = notifiedBody[h]) =>
                 /\ NotificationsFor(notifications', h) = 0
                 /\ lastNotifiedContent'[h] = lastNotifiedContent[h]]_vars

\* a pass published nothing for an unread conversation showing the body
\* of its latest notification, after its row was found read and while every
\* reading since, at least one, was above 0
C22_Witness ==
    \E h \in DOMAIN observedContent :
        /\ NotificationsFor(notifications, h) = 0
        /\ h \in DOMAIN sinceNotified
        /\ sinceNotified[h].read
        /\ sinceNotified[h].readings = "above"
        /\ observedContent[h] = notifiedBody[h]
        /\ currentBadgeCount > 0

\* C10: once 3 zero readings in a row have been taken the badge is 0 and
\* stays 0 while the readings stay 0; and if from some point on every
\* reading is 0, a published value of 0 eventually occurs.
C10_BoundedClearing ==
    /\ [](zeroRun >= ZERO_CONFIRMATION_THRESHOLD => currentBadgeCount = 0)
    /\ (<>[](zeroRun > 0)) => <>(trayIcon = <<0>>)

C10_Witness ==
    /\ zeroRun > ZERO_CONFIRMATION_THRESHOLD
    /\ badgeBefore = 0
    /\ trayIcon = <<0>>
    /\ clearedContent # EmptyMap

====
